---- MODULE Spec2Model ----
(***************************************************************************)
(* A model of humod/humodem.py: the Prober with its QueueFeeder and        *)
(* Interpreter threads, Interpreter.interpret, and ModemPort.send /        *)
(* ModemPort.return_data.                                                  *)
(*                                                                         *)
(* Text is a sequence of one-character strings, so <<"O","K">> is the      *)
(* Python string 'OK' and <<>> is ''.                                      *)
(***************************************************************************)
EXTENDS Integers, Sequences, FiniteSets, TLC

\* ------------------------------------------------------------------ bounds
\* successful calls of Prober.start(): generations of threads
MaxStarts == 2
\* iterations (reads of the control port) all QueueFeeder threads make together
MaxReads == 2

VARIABLES
    \* Prober fields
    p_feeder,        \* Prober._feeder: 0 is None, g > 0 the g-th QueueFeeder
    p_interpreter,   \* Prober._interpreter: 0 is None, g > 0 the g-th Interpreter
    queue,           \* Prober.queue: messages [id, line, by], oldest first
    patterns,        \* Prober.patterns: the ordered (pattern, action) rules
    \* QueueFeeder threads, by generation: position in run(), self.active
    f_pc, f_active,
    \* Interpreter threads, by generation: position in run(), self.active,
    \* the message taken from the queue
    i_pc, i_active, i_msg,
    \* Modem.ctrl_lock: 0 is free, g > 0 held by the g-th QueueFeeder
    ctrl_lock,
    \* a ModemPort (the control port for the Prober and for send, the data
    \* port for connect): the lines the modem has sent that are not read yet,
    \* what was written to it, whether it has a read timeout
    rx, tx, port_timeout,
    \* the calling thread: position in start()/stop(), how its last call ended
    c_pc, c_outcome,
    \* threads created so far
    nthreads,
    \* what the last interpret(message) call invoked: a sequence of calls
    calls,
    \* history: number of queue.put calls (the id of the newest message), the
    \* interpret calls in the order they were made, reads of the control port
    enq, disp, nreads,
    \* Interpreter.interpret called on its own: the message given, and whether
    \* the call was made
    message, t_pc,
    \* one call of ModemPort.send(SendText, wait, at_cmd): position, the
    \* arguments at_cmd and wait, return_data's list data, how the call ended,
    \* and the lines the modem answers with as they were before the call
    s_pc, s_at_cmd, s_wait, s_data, s_result, s_stream,
    \* the Modem: _pppd_pid (0 is None), whether its data port is open, the
    \* position of the calling thread in connect()/disconnect(), the call it
    \* made last and how that ended ("none" while it runs), the local variables status of connect and
    \* data of the return_data it runs, the processes forked so far, the
    \* process ids signalled so far, and the lines the modem has answered
    m_pppd_pid, d_open, m_pc, m_call, m_outcome, m_status, m_data,
    procs, kills, answers

pvars == <<p_feeder, p_interpreter, queue, f_pc, f_active,
           i_pc, i_active, i_msg, ctrl_lock,
           c_pc, c_outcome, nthreads, enq, disp, nreads>>

portvars == <<rx, tx, port_timeout>>

svars == <<s_pc, s_at_cmd, s_wait, s_data, s_result, s_stream>>

tvars == <<message, t_pc>>

mvars == <<m_pppd_pid, d_open, m_pc, m_call, m_outcome, m_status, m_data,
           procs, kills, answers>>

vars == <<pvars, portvars, patterns, calls, tvars, svars, mvars>>

\* ------------------------------------------------------------------- text
Empty == <<>>
CRLF == <<"\r", "\n">>
RING == <<"R", "I", "N", "G">>

\* what the modem may send unprompted on the control port while a read waits
Unsolicited == {RING \o CRLF}

\* thread generations: one QueueFeeder and one Interpreter per successful start()
Gens == 1..MaxStarts

\* a thread is live from Thread.start() until run() returns or raises
Live(pc) == pc \notin {"none", "done", "crashed"}

\* ------------------------------------------------------------ Queue.Queue
QueuePut(q, item) == Append(q, item)
QueueHead(q) == Head(q)
\* a get that leaves the message on the queue
QueueAfterGetPeek(q) == q
QueueAfterGet(q) == Tail(q)

\* ------------------------------------------------------------ serial port
\* serial.Serial.readline(): the oldest unread line; with none to read, a
\* port with a read timeout returns a line that arrives within the timeout
\* (one of arriving) or '' when it expires, and a port without a timeout
\* blocks (no result)
Readline(unread, timeout, arriving) ==
    IF unread # <<>> THEN {Head(unread)}
    ELSE IF timeout THEN arriving \cup {Empty}
    ELSE {}

AfterReadline(unread) == IF unread # <<>> THEN Tail(unread) ELSE unread

\* serial.Serial.write(data)
Write(written, data) == Append(written, data)

\* no message: the value of a local variable that holds none
NoMessage == <<>>

\* ------------------------------------------------- Interpreter.interpret
\* pattern.search(message) for a pattern that is literal text: the pattern
\* occurs somewhere in the message
Search(pattern, msg) ==
    \E i \in 1..(Len(msg) - Len(pattern) + 1) :
        SubSeq(msg, i, i + Len(pattern) - 1) = pattern

\* the call action(self.modem, msg) of rule k
RuleCall(rules, k) == [via |-> "rule", rule |-> k, action |-> rules[k].action]

\* the call actions.no_match(self.modem, msg)
DefaultCall == [via |-> "default", rule |-> 0, action |-> "no_match"]

\* the loop without first-match-wins: every rule that matches has its
\* action called, and the default action only when none matched
RECURSIVE InterpretLoopNoBreak(_, _, _, _)
InterpretLoopNoBreak(rules, msg, k, made) ==
    IF k > Len(rules)
    THEN IF made = <<>> THEN Append(made, DefaultCall) ELSE made
    ELSE IF Search(rules[k].pattern, msg)
         THEN InterpretLoopNoBreak(rules, msg, k + 1, Append(made, RuleCall(rules, k)))
         ELSE InterpretLoopNoBreak(rules, msg, k + 1, made)

\* the loop followed by the default action instead of a for-else clause
RECURSIVE InterpretLoopElseAlways(_, _, _, _)
InterpretLoopElseAlways(rules, msg, k, made) ==
    IF k > Len(rules)
    THEN Append(made, DefaultCall)
    ELSE IF Search(rules[k].pattern, msg)
         THEN Append(Append(made, RuleCall(rules, k)), DefaultCall)
         ELSE InterpretLoopElseAlways(rules, msg, k + 1, made)

\* the for loop from rule k on, with the calls made so far: a rule that
\* matches has its action called and breaks the loop; the else clause runs
\* when the loop ends without a break
RECURSIVE InterpretLoop(_, _, _, _)
InterpretLoop(rules, msg, k, made) ==
    IF k > Len(rules)
    THEN Append(made, DefaultCall)
    ELSE IF Search(rules[k].pattern, msg)
         THEN Append(made, RuleCall(rules, k))
         ELSE InterpretLoop(rules, msg, k + 1, made)

Interpret(rules, msg) == InterpretLoop(rules, msg, 1, <<>>)

\* the dispatch table of the embedding application used with the Prober
RI == <<"R", "I">>
ProberPatterns ==
    << [pattern |-> RING, action |-> "A"], [pattern |-> RI, action |-> "B"] >>

\* ------------------------------------------------------------------- Init
\* Prober.__init__, with no thread created yet
ProberInit ==
    /\ p_feeder = 0
    /\ p_interpreter = 0
    /\ queue = <<>>
    /\ f_pc = [g \in Gens |-> "none"]
    /\ f_active = [g \in Gens |-> FALSE]
    /\ i_pc = [g \in Gens |-> "none"]
    /\ i_active = [g \in Gens |-> FALSE]
    /\ i_msg = [g \in Gens |-> NoMessage]
    /\ ctrl_lock = 0
    /\ c_pc = "idle"
    /\ c_outcome = "ok"
    /\ nthreads = 0
    /\ enq = 0
    /\ disp = <<>>
    /\ nreads = 0

\* ------------------------------------------------------ QueueFeeder.run
\* while self.active:  (a new iteration starts only within the read budget)
FeederCheck(g) ==
    /\ f_pc[g] = "check"
    /\ IF f_active[g]
       THEN /\ nreads < MaxReads
            /\ f_pc' = [f_pc EXCEPT ![g] = "acquire"]
       ELSE f_pc' = [f_pc EXCEPT ![g] = "done"]
    /\ UNCHANGED <<p_feeder, p_interpreter, queue, f_active,
                   i_pc, i_active, i_msg, ctrl_lock,
                   c_pc, c_outcome, nthreads, enq, disp, nreads, patterns, calls, tvars, svars, mvars, portvars>>

\* self.ctrl_lock.acquire()
FeederAcquire(g) ==
    /\ f_pc[g] = "acquire"
    /\ ctrl_lock = 0
    /\ ctrl_lock' = g
    /\ f_pc' = [f_pc EXCEPT ![g] = "read"]
    /\ UNCHANGED <<p_feeder, p_interpreter, queue, f_active,
                   i_pc, i_active, i_msg,
                   c_pc, c_outcome, nthreads, enq, disp, nreads, patterns, calls, tvars, svars, mvars, portvars>>

\* a read whose empty result (a read timeout) is not put on the queue
FeederReadPutFiltered(g) ==
    /\ f_pc[g] = "read"
    /\ \E line \in Readline(rx, port_timeout, Unsolicited) :
          /\ IF line = Empty
             THEN UNCHANGED <<queue, enq>>
             ELSE /\ queue' = QueuePut(queue, [id |-> enq + 1, line |-> line, by |-> "feeder"])
                  /\ enq' = enq + 1
          /\ rx' = AfterReadline(rx)
    /\ nreads' = nreads + 1
    /\ f_pc' = [f_pc EXCEPT ![g] = "release"]
    /\ UNCHANGED <<p_feeder, p_interpreter, f_active,
                   i_pc, i_active, i_msg, ctrl_lock,
                   c_pc, c_outcome, nthreads, disp, patterns, calls, tvars, svars, mvars,
                   tx, port_timeout>>

\* input_line = self.ctrl_port.readline(); self.queue.put(input_line)
FeederReadPut(g) ==
    /\ f_pc[g] = "read"
    /\ \E line \in Readline(rx, port_timeout, Unsolicited) :
          /\ queue' = QueuePut(queue, [id |-> enq + 1, line |-> line, by |-> "feeder"])
          /\ rx' = AfterReadline(rx)
    /\ enq' = enq + 1
    /\ nreads' = nreads + 1
    /\ f_pc' = [f_pc EXCEPT ![g] = "release"]
    /\ UNCHANGED <<p_feeder, p_interpreter, f_active,
                   i_pc, i_active, i_msg, ctrl_lock,
                   c_pc, c_outcome, nthreads, disp, patterns, calls, tvars, svars, mvars,
                   tx, port_timeout>>

\* readline() or queue.put raises (the port is gone): the finally clause
\* runs with the exception pending
FeederReadRaises(g) ==
    /\ f_pc[g] = "read"
    /\ nreads' = nreads + 1
    /\ f_pc' = [f_pc EXCEPT ![g] = "release_raised"]
    /\ UNCHANGED <<p_feeder, p_interpreter, queue, f_active,
                   i_pc, i_active, i_msg, ctrl_lock,
                   c_pc, c_outcome, nthreads, enq, disp, patterns, calls, tvars, svars, mvars, portvars>>

\* a finally clause that idles without having released the lock
FeederReleaseAfterSleep(g) ==
    /\ f_pc[g] \in {"release", "release_raised"}
    /\ f_pc' = [f_pc EXCEPT ![g] = IF f_pc[g] = "release" THEN "sleep" ELSE "sleep_raised"]
    /\ UNCHANGED <<p_feeder, p_interpreter, queue, f_active,
                   i_pc, i_active, i_msg, ctrl_lock,
                   c_pc, c_outcome, nthreads, enq, disp, nreads, patterns, calls, tvars, svars, mvars, portvars>>

\* finally: self.ctrl_lock.release()
FeederRelease(g) ==
    /\ f_pc[g] \in {"release", "release_raised"}
    /\ ctrl_lock' = 0
    /\ f_pc' = [f_pc EXCEPT ![g] = IF f_pc[g] = "release" THEN "sleep" ELSE "sleep_raised"]
    /\ UNCHANGED <<p_feeder, p_interpreter, queue, f_active,
                   i_pc, i_active, i_msg,
                   c_pc, c_outcome, nthreads, enq, disp, nreads, patterns, calls, tvars, svars, mvars, portvars>>

\* finally: time.sleep(.1), after which the loop goes on or the pending
\* exception ends run()
FeederSleep(g) ==
    /\ f_pc[g] \in {"sleep", "sleep_raised"}
    /\ f_pc' = [f_pc EXCEPT ![g] = IF f_pc[g] = "sleep" THEN "check" ELSE "crashed"]
    /\ UNCHANGED <<p_feeder, p_interpreter, queue, f_active,
                   i_pc, i_active, i_msg, ctrl_lock,
                   c_pc, c_outcome, nthreads, enq, disp, nreads, patterns, calls, tvars, svars, mvars, portvars>>

\* ------------------------------------------------------- Interpreter.run
\* a loop test that does not look at self.active
InterpreterCheckAlways(g) ==
    /\ i_pc[g] = "check"
    /\ i_pc' = [i_pc EXCEPT ![g] = "get"]
    /\ UNCHANGED <<p_feeder, p_interpreter, queue, f_pc, f_active,
                   i_active, i_msg, ctrl_lock,
                   c_pc, c_outcome, nthreads, enq, disp, nreads, patterns, calls, tvars, svars, mvars, portvars>>

\* while self.active:
InterpreterCheck(g) ==
    /\ i_pc[g] = "check"
    /\ i_pc' = [i_pc EXCEPT ![g] = IF i_active[g] THEN "get" ELSE "done"]
    /\ UNCHANGED <<p_feeder, p_interpreter, queue, f_pc, f_active,
                   i_active, i_msg, ctrl_lock,
                   c_pc, c_outcome, nthreads, enq, disp, nreads, patterns, calls, tvars, svars, mvars, portvars>>

\* self.queue.get(): blocks while the queue is empty
InterpreterGet(g) ==
    /\ i_pc[g] = "get"
    /\ queue # <<>>
    /\ i_msg' = [i_msg EXCEPT ![g] = QueueHead(queue)]
    /\ queue' = QueueAfterGet(queue)
    /\ i_pc' = [i_pc EXCEPT ![g] = "interpret"]
    /\ UNCHANGED <<p_feeder, p_interpreter, f_pc, f_active,
                   i_active, ctrl_lock,
                   c_pc, c_outcome, nthreads, enq, disp, nreads, patterns, calls, tvars, svars, mvars, portvars>>

\* self.interpret(message): the action returns, or raises and ends run()
InterpreterInterpret(g) ==
    /\ i_pc[g] = "interpret"
    /\ disp' = Append(disp, [id |-> i_msg[g].id, by |-> i_msg[g].by, gen |-> g])
    /\ \E raises \in BOOLEAN :
          i_pc' = [i_pc EXCEPT ![g] = IF raises THEN "crashed" ELSE "check"]
    /\ calls' = Interpret(patterns, i_msg[g].line)
    /\ i_msg' = [i_msg EXCEPT ![g] = NoMessage]
    /\ UNCHANGED <<p_feeder, p_interpreter, queue, f_pc, f_active,
                   i_active, ctrl_lock,
                   c_pc, c_outcome, nthreads, enq, nreads, patterns, tvars, svars, mvars, portvars>>

\* self.interpret(message) when the action returns
InterpreterInterpretReturns(g) ==
    /\ i_pc[g] = "interpret"
    /\ disp' = Append(disp, [id |-> i_msg[g].id, by |-> i_msg[g].by, gen |-> g])
    /\ i_pc' = [i_pc EXCEPT ![g] = "check"]
    /\ calls' = Interpret(patterns, i_msg[g].line)
    /\ i_msg' = [i_msg EXCEPT ![g] = NoMessage]
    /\ UNCHANGED <<p_feeder, p_interpreter, queue, f_pc, f_active,
                   i_active, ctrl_lock,
                   c_pc, c_outcome, nthreads, enq, nreads, patterns, tvars, svars, mvars, portvars>>

\* start() without its guard: a started Prober is started again
StartUnguarded ==
    /\ c_pc = "idle"
    /\ p_feeder # 0
    /\ nthreads < MaxStarts
    /\ nthreads' = nthreads + 1
    /\ p_feeder' = nthreads + 1
    /\ f_active' = [f_active EXCEPT ![nthreads + 1] = TRUE]
    /\ f_pc' = [f_pc EXCEPT ![nthreads + 1] = "check"]
    /\ p_interpreter' = nthreads + 1
    /\ i_active' = [i_active EXCEPT ![nthreads + 1] = TRUE]
    /\ i_pc' = [i_pc EXCEPT ![nthreads + 1] = "check"]
    /\ c_outcome' = "ok"
    /\ UNCHANGED <<queue, i_msg, ctrl_lock,
                   c_pc, enq, disp, nreads, patterns, calls, tvars, svars, mvars, portvars>>

\* ---------------------------------------------------------- Prober.start
\* if self._feeder: raise HumodUsageError
StartRaises ==
    /\ c_pc = "idle"
    /\ p_feeder # 0
    /\ c_outcome' = "start_usage_error"
    /\ UNCHANGED <<p_feeder, p_interpreter, queue, f_pc, f_active,
                   i_pc, i_active, i_msg, ctrl_lock,
                   c_pc, nthreads, enq, disp, nreads, patterns, calls, tvars, svars, mvars, portvars>>

\* else: self._feeder = QueueFeeder(...); self._feeder.start();
\* self._start_interpreter(): a new Interpreter on the same queue, started
Start ==
    /\ c_pc = "idle"
    /\ p_feeder = 0
    /\ nthreads < MaxStarts
    /\ nthreads' = nthreads + 1
    /\ p_feeder' = nthreads + 1
    /\ f_active' = [f_active EXCEPT ![nthreads + 1] = TRUE]
    /\ f_pc' = [f_pc EXCEPT ![nthreads + 1] = "check"]
    /\ p_interpreter' = nthreads + 1
    /\ i_active' = [i_active EXCEPT ![nthreads + 1] = TRUE]
    /\ i_pc' = [i_pc EXCEPT ![nthreads + 1] = "check"]
    /\ c_outcome' = "ok"
    /\ UNCHANGED <<queue, i_msg, ctrl_lock,
                   c_pc, enq, disp, nreads, patterns, calls, tvars, svars, mvars, portvars>>

\* ----------------------------------------------------------- Prober.stop
\* else: raise HumodUsageError
StopRaises ==
    /\ c_pc = "idle"
    /\ p_feeder = 0
    /\ c_outcome' = "stop_usage_error"
    /\ UNCHANGED <<p_feeder, p_interpreter, queue, f_pc, f_active,
                   i_pc, i_active, i_msg, ctrl_lock,
                   c_pc, nthreads, enq, disp, nreads, patterns, calls, tvars, svars, mvars, portvars>>

\* if self._feeder: _stop_interpreter(): self._interpreter.active = False
StopInterpreterFlag ==
    /\ c_pc = "idle"
    /\ p_feeder # 0
    /\ i_active' = [i_active EXCEPT ![p_interpreter] = FALSE]
    /\ c_pc' = "stop_sentinel"
    /\ c_outcome' = "ok"
    /\ UNCHANGED <<p_feeder, p_interpreter, queue, f_pc, f_active,
                   i_pc, i_msg, ctrl_lock,
                   nthreads, enq, disp, nreads, patterns, calls, tvars, svars, mvars, portvars>>

\* _stop_interpreter(): self._interpreter.queue.put('')
StopSentinel ==
    /\ c_pc = "stop_sentinel"
    /\ enq' = enq + 1
    /\ queue' = QueuePut(queue, [id |-> enq + 1, line |-> Empty, by |-> "stop"])
    /\ c_pc' = "stop_feeder"
    /\ UNCHANGED <<p_feeder, p_interpreter, f_pc, f_active,
                   i_pc, i_active, i_msg, ctrl_lock,
                   c_outcome, nthreads, disp, nreads, patterns, calls, tvars, svars, mvars, portvars>>

\* QueueFeeder.stop(): self.active = False
StopFeederFlag ==
    /\ c_pc = "stop_feeder"
    /\ f_active' = [f_active EXCEPT ![p_feeder] = FALSE]
    /\ c_pc' = "stop_write"
    /\ UNCHANGED <<p_feeder, p_interpreter, queue, f_pc,
                   i_pc, i_active, i_msg, ctrl_lock,
                   c_outcome, nthreads, enq, disp, nreads, patterns, calls, tvars, svars, mvars, portvars>>

\* QueueFeeder.stop(): self.ctrl_port.write('\r\n'), without the lock;
\* back in Prober.stop(): self._feeder = None
StopWriteClear ==
    /\ c_pc = "stop_write"
    /\ tx' = Write(tx, CRLF)
    /\ p_feeder' = 0
    /\ c_pc' = "idle"
    /\ UNCHANGED <<p_interpreter, queue, f_pc, f_active,
                   i_pc, i_active, i_msg, ctrl_lock,
                   c_outcome, nthreads, enq, disp, nreads, patterns, calls, tvars, svars, mvars,
                   rx, port_timeout>>

\* --------------------------------------------------------- ModemPort.send
\* the text argument of the modelled call, and its at_cmd when one is given
CSQ == <<"+", "C", "S", "Q">>
SendText == CSQ
NoCommand == <<>>
OK == <<"O", "K">>

\* str.rstrip(): trailing whitespace removed
Whitespace == {" ", "\r", "\n", "\t"}
RECURSIVE RStrip(_)
RStrip(text) ==
    IF text # <<>> /\ text[Len(text)] \in Whitespace
    THEN RStrip(SubSeq(text, 1, Len(text) - 1))
    ELSE text

\* str.startswith(prefix)
StartsWith(text, prefix) ==
    /\ Len(prefix) <= Len(text)
    /\ SubSeq(text, 1, Len(prefix)) = prefix

\* text[n:]
SliceFrom(text, n) == SubSeq(text, n + 1, Len(text))

\* errors.check_for_errors(input_line) raises: the line holds a classified
\* error token
ErrorTokens == {<<"E", "R", "R", "O", "R">>}
IsError(line) == \E token \in ErrorTokens : Search(token, line)

\* 'AT%s\r' % text
AtFrame(text) == <<"A", "T">> \o text \o <<"\r">>

\* no call of send is in progress or was made
SendIdle ==
    /\ s_pc = "none"
    /\ s_at_cmd = NoCommand
    /\ s_wait = FALSE
    /\ s_data = <<>>
    /\ s_result = "none"
    /\ s_stream = <<>>

\* a write made under the control lock: send takes the lock first
SendWriteLocked ==
    /\ s_pc = "write"
    /\ ctrl_lock = 0
    /\ ctrl_lock' = MaxStarts + 1
    /\ tx' = Write(tx, IF s_at_cmd # NoCommand THEN AtFrame(SendText) ELSE SendText)
    /\ s_pc' = "echo"
    /\ UNCHANGED <<p_feeder, p_interpreter, queue, f_pc, f_active,
                   i_pc, i_active, i_msg, c_pc, c_outcome, nthreads, enq, disp,
                   nreads, patterns, calls, tvars, mvars, rx, port_timeout,
                   s_at_cmd, s_wait, s_data, s_result, s_stream>>

\* if at_cmd: self.write('AT%s\r' % text) else: self.write(text)
SendWrite ==
    /\ s_pc = "write"
    /\ tx' = Write(tx, IF s_at_cmd # NoCommand THEN AtFrame(SendText) ELSE SendText)
    /\ s_pc' = "echo"
    /\ UNCHANGED <<pvars, patterns, calls, tvars, mvars, rx, port_timeout,
                   s_at_cmd, s_wait, s_data, s_result, s_stream>>

\* input_line = self.readline(); errors.check_for_errors(input_line);
\* if wait: return self.return_data(at_cmd), which starts with data = list()
SendEcho ==
    /\ s_pc = "echo"
    /\ \E input_line \in Readline(rx, port_timeout, {}) :
          /\ rx' = AfterReadline(rx)
          /\ IF IsError(input_line)
             THEN s_pc' = "raised" /\ s_result' = "error"
             ELSE IF s_wait
                  THEN s_pc' = "return_data" /\ s_result' = s_result
                  ELSE s_pc' = "returned" /\ s_result' = "None"
    /\ s_data' = <<>>
    /\ UNCHANGED <<pvars, patterns, calls, tvars, mvars, tx, port_timeout,
                   s_at_cmd, s_wait, s_stream>>

\* the retention step without the test for an empty line
RetainedAll(data, command, input_line) ==
    IF command # NoCommand
    THEN IF StartsWith(input_line, command)
         THEN Append(data, SliceFrom(input_line, Len(command) + 2))
         ELSE data
    ELSE Append(data, input_line)

\* the retention step of return_data for one right-stripped line
Retained(data, command, input_line) ==
    IF command # NoCommand
    THEN IF StartsWith(input_line, command)
         THEN Append(data, SliceFrom(input_line, Len(command) + 2))
         ELSE data
    ELSE IF input_line # Empty
         THEN Append(data, input_line)
         ELSE data

\* an iteration without the error check
ReturnDataStepUnchecked(data, command, input_line) ==
    IF input_line = OK
    THEN [pc |-> "returned", result |-> "data", data |-> data]
    ELSE [pc |-> "return_data", result |-> "none",
          data |-> IF command # NoCommand
                   THEN IF StartsWith(input_line, command)
                        THEN Append(data, SliceFrom(input_line, Len(command) + 2))
                        ELSE data
                   ELSE IF input_line # Empty
                        THEN Append(data, input_line)
                        ELSE data]

\* an iteration that also ends the loop on a line that is empty
ReturnDataStepEndsOnEmpty(data, command, input_line) ==
    IF IsError(input_line)
    THEN [pc |-> "raised", result |-> "error", data |-> data]
    ELSE IF input_line = OK \/ input_line = Empty
         THEN [pc |-> "returned", result |-> "data", data |-> data]
         ELSE [pc |-> "return_data", result |-> "none",
               data |-> Retained(data, command, input_line)]

\* how one iteration of return_data's loop ends for a right-stripped line:
\* the error check, then the terminator check, then the retention step
ReturnDataStep(data, command, input_line) ==
    IF IsError(input_line)
    THEN [pc |-> "raised", result |-> "error", data |-> data]
    ELSE IF input_line = OK
         THEN [pc |-> "returned", result |-> "data", data |-> data]
         ELSE [pc |-> "return_data", result |-> "none",
               data |-> Retained(data, command, input_line)]

\* one iteration of the loop of return_data(command)
ReturnDataRead ==
    /\ s_pc = "return_data"
    /\ \E raw \in Readline(rx, port_timeout, {}) :
          LET step == ReturnDataStep(s_data, s_at_cmd, RStrip(raw))
          IN  /\ rx' = AfterReadline(rx)
              /\ s_pc' = step.pc
              /\ s_result' = step.result
              /\ s_data' = step.data
    /\ UNCHANGED <<pvars, patterns, calls, tvars, mvars, tx, port_timeout,
                   s_at_cmd, s_wait, s_stream>>

\* ------------------------------------------------------------------ Modem
\* what connect() writes: 'ATZ\r' and 'ATDT%s\r' % self._dial_num
ATZ == <<"A", "T", "Z", "\r">>
Dial == <<"A", "T", "D", "T", "*", "9", "9", "#", "\r">>
CONNECT == <<"C", "O", "N", "N", "E", "C", "T">>

\* the lines the modem answers with on the data port
NoCarrier == <<"N", "O", " ", "C", "A", "R", "R", "I", "E", "R">>
DataLines ==
    { OK \o CRLF,
      CONNECT \o <<" ", "9", "6", "0", "0">> \o CRLF,
      NoCarrier \o CRLF,
      <<" ">> \o CONNECT \o CRLF,
      CRLF,
      <<"E", "R", "R", "O", "R">> \o CRLF }

\* most lines the modem answers with in all
MaxAnswers == 8

\* Modem.__init__ and the class attribute _pppd_pid = None: not connected,
\* the data port made without a port name and so not opened, no call made
ModemInit ==
    /\ m_pppd_pid = 0
    /\ d_open = FALSE
    /\ m_pc = "idle"
    /\ m_call = "none"
    /\ m_outcome = "none"
    /\ m_status = Empty
    /\ m_data = <<>>
    /\ procs = 0
    /\ kills = <<>>
    /\ answers = 0

\* the modem answers a read that waits on the data port with one more line
ModemAnswers ==
    /\ m_pc \in {"atz_echo", "atz_data", "dial_echo", "status"}
    /\ rx = <<>>
    /\ answers < MaxAnswers
    /\ \E line \in DataLines : rx' = <<line>>
    /\ answers' = answers + 1
    /\ UNCHANGED <<pvars, patterns, calls, tvars, svars, tx, port_timeout,
                   m_pppd_pid, d_open, m_pc, m_call, m_outcome, m_status,
                   m_data, procs, kills>>

\* connect() without its guard: the dial sequence starts though a process id
\* is tracked
ConnectUnguarded ==
    /\ m_pc = "idle"
    /\ m_pppd_pid # 0
    /\ m_call' = "connect"
    /\ d_open' = TRUE
    /\ m_pc' = "atz_write"
    /\ m_outcome' = "none"
    /\ UNCHANGED <<pvars, portvars, patterns, calls, tvars, svars,
                   m_pppd_pid, m_status, m_data, procs, kills, answers>>

\* connect(): if not self._pppd_pid: ... else: raise HumodUsageError
ConnectRaises ==
    /\ m_pc = "idle"
    /\ m_pppd_pid # 0
    /\ m_call' = "connect"
    /\ m_outcome' = "usage_error"
    /\ UNCHANGED <<pvars, portvars, patterns, calls, tvars, svars,
                   m_pppd_pid, d_open, m_pc, m_status, m_data, procs, kills,
                   answers>>

\* connect(): if not self._pppd_pid: data_port.open(). serial.Serial.open()
\* on a port that is open already (an earlier connect() opened it and nothing
\* closes it) raises SerialException or opens it again, by the version of
\* the serial library
ConnectOpen ==
    /\ m_pc = "idle"
    /\ m_pppd_pid = 0
    /\ m_call' = "connect"
    /\ \E refused \in {FALSE, d_open} :
          IF refused
          THEN /\ m_outcome' = "serial_error"
               /\ UNCHANGED <<m_pc, d_open>>
          ELSE /\ m_pc' = "atz_write"
               /\ d_open' = TRUE
               /\ m_outcome' = "none"
    /\ UNCHANGED <<pvars, portvars, patterns, calls, tvars, svars,
                   m_pppd_pid, m_status, m_data, procs, kills, answers>>

\* data_port.send('ATZ\r'): at_cmd is None, so self.write(text)
ConnectAtzWrite ==
    /\ m_pc = "atz_write"
    /\ tx' = Write(tx, ATZ)
    /\ m_pc' = "atz_echo"
    /\ UNCHANGED <<pvars, patterns, calls, tvars, svars, rx, port_timeout,
                   m_pppd_pid, d_open, m_call, m_outcome, m_status, m_data,
                   procs, kills, answers>>

\* send: input_line = self.readline(); errors.check_for_errors(input_line);
\* wait is True: return self.return_data(None), which starts with data = list()
ConnectAtzEcho ==
    /\ m_pc = "atz_echo"
    /\ \E input_line \in Readline(rx, port_timeout, {}) :
          /\ rx' = AfterReadline(rx)
          /\ IF IsError(input_line)
             THEN m_pc' = "idle" /\ m_outcome' = "at_error"
             ELSE m_pc' = "atz_data" /\ UNCHANGED m_outcome
    /\ m_data' = <<>>
    /\ UNCHANGED <<pvars, patterns, calls, tvars, svars, tx, port_timeout,
                   m_pppd_pid, d_open, m_call, m_status, procs, kills,
                   answers>>

\* one iteration of the loop of return_data(None) run by send('ATZ\r'); its
\* result is not used by connect()
ConnectAtzData ==
    /\ m_pc = "atz_data"
    /\ \E raw \in Readline(rx, port_timeout, {}) :
          LET step == ReturnDataStep(m_data, NoCommand, RStrip(raw))
          IN  /\ rx' = AfterReadline(rx)
              /\ m_pc' = CASE step.pc = "returned" -> "dial_write"
                           [] step.pc = "raised" -> "idle"
                           [] OTHER -> "atz_data"
              /\ m_outcome' = IF step.pc = "raised" THEN "at_error" ELSE m_outcome
              /\ m_data' = IF step.pc = "return_data" THEN step.data ELSE <<>>
    /\ UNCHANGED <<pvars, patterns, calls, tvars, svars, tx, port_timeout,
                   m_pppd_pid, d_open, m_call, m_status, procs, kills,
                   answers>>

\* data_port.send('ATDT%s\r' % self._dial_num, wait=False): self.write(text)
ConnectDialWrite ==
    /\ m_pc = "dial_write"
    /\ tx' = Write(tx, Dial)
    /\ m_pc' = "dial_echo"
    /\ UNCHANGED <<pvars, patterns, calls, tvars, svars, rx, port_timeout,
                   m_pppd_pid, d_open, m_call, m_outcome, m_status, m_data,
                   procs, kills, answers>>

\* send: input_line = self.readline(); errors.check_for_errors(input_line);
\* wait is False: send returns None
ConnectDialEcho ==
    /\ m_pc = "dial_echo"
    /\ \E input_line \in Readline(rx, port_timeout, {}) :
          /\ rx' = AfterReadline(rx)
          /\ IF IsError(input_line)
             THEN m_pc' = "idle" /\ m_outcome' = "at_error"
             ELSE m_pc' = "status" /\ UNCHANGED m_outcome
    /\ UNCHANGED <<pvars, patterns, calls, tvars, svars, tx, port_timeout,
                   m_pppd_pid, d_open, m_call, m_status, m_data, procs, kills,
                   answers>>

\* the status test done on a line that holds CONNECT anywhere
ConnectStatusAnywhere ==
    /\ m_pc = "status"
    /\ \E status \in Readline(rx, port_timeout, {}) :
          /\ rx' = AfterReadline(rx)
          /\ m_status' = status
          /\ IF Search(CONNECT, status)
             THEN /\ procs' = procs + 1
                  /\ m_pppd_pid' = procs + 1
             ELSE UNCHANGED <<procs, m_pppd_pid>>
    /\ m_pc' = "idle"
    /\ m_outcome' = "ok"
    /\ UNCHANGED <<pvars, patterns, calls, tvars, svars, tx, port_timeout,
                   d_open, m_call, m_data, kills, answers>>

\* status = data_port.readline(); if status.startswith('CONNECT'):
\* pid = os.fork(); if pid: self._pppd_pid = pid (the child, process number
\* procs + 1, goes on to os.execv); connect() returns
ConnectStatus ==
    /\ m_pc = "status"
    /\ \E status \in Readline(rx, port_timeout, {}) :
          /\ rx' = AfterReadline(rx)
          /\ m_status' = status
          /\ IF StartsWith(status, CONNECT)
             THEN /\ procs' = procs + 1
                  /\ m_pppd_pid' = procs + 1
             ELSE UNCHANGED <<procs, m_pppd_pid>>
    /\ m_pc' = "idle"
    /\ m_outcome' = "ok"
    /\ UNCHANGED <<pvars, patterns, calls, tvars, svars, tx, port_timeout,
                   d_open, m_call, m_data, kills, answers>>

\* disconnect(): else: raise HumodUsageError
DisconnectRaises ==
    /\ m_pc = "idle"
    /\ m_pppd_pid = 0
    /\ m_call' = "disconnect"
    /\ m_outcome' = "usage_error"
    /\ UNCHANGED <<pvars, portvars, patterns, calls, tvars, svars,
                   m_pppd_pid, d_open, m_pc, m_status, m_data, procs, kills,
                   answers>>

\* disconnect(): if self._pppd_pid: os.kill(self._pppd_pid, 15);
\* self._pppd_pid = None
Disconnect ==
    /\ m_pc = "idle"
    /\ m_pppd_pid # 0
    /\ m_call' = "disconnect"
    /\ kills' = Append(kills, m_pppd_pid)
    /\ m_pppd_pid' = 0
    /\ m_outcome' = "ok"
    /\ UNCHANGED <<pvars, portvars, patterns, calls, tvars, svars,
                   d_open, m_pc, m_status, m_data, procs, answers>>

\* disconnect(): os.kill raises OSError (the process has ended already), so
\* the assignment after it is not reached
DisconnectKillRaises ==
    /\ m_pc = "idle"
    /\ m_pppd_pid # 0
    /\ m_call' = "disconnect"
    /\ m_outcome' = "os_error"
    /\ UNCHANGED <<pvars, portvars, patterns, calls, tvars, svars,
                   m_pppd_pid, d_open, m_pc, m_status, m_data, procs, kills,
                   answers>>

\* ------------------------------------------------------------ the inputs
\* longest answer of the modem to one send, in lines
MaxStream == 4
\* most rules in a dispatch table
MaxRules == 2

\* the lines a modem answers with
ReplyLines ==
    { CSQ \o <<":", " ", "5">> \o CRLF,
      CSQ \o <<"=", "1", "2">> \o CRLF,
      <<"h", "i", " ">> \o CRLF,
      CRLF,
      OK \o CRLF,
      <<"E", "R", "R", "O", "R">> \o CRLF }

RECURSIVE SeqsUpTo(_, _)
SeqsUpTo(S, n) ==
    IF n = 0 THEN {<<>>}
    ELSE LET shorter == SeqsUpTo(S, n - 1)
         IN  shorter \cup {Append(q, x) : q \in shorter, x \in S}

\* the rules and messages interpret is tried on
RuleSet ==
    [pattern : {RING, RI, OK}, action : {"A", "B"}]
Messages == {RING, RI, OK, Empty}

\* ------------------------------------------------------------------- Spec
Feeder(g) ==
    \/ FeederCheck(g)
    \/ FeederAcquire(g)
    \/ FeederReadPut(g)
    \/ FeederReadRaises(g)
    \/ FeederRelease(g)
    \/ FeederSleep(g)

Interpreter(g) ==
    \/ InterpreterCheck(g)
    \/ InterpreterGet(g)
    \/ InterpreterInterpret(g)

Caller ==
    \/ StartRaises
    \/ Start
    \/ StopRaises
    \/ StopInterpreterFlag
    \/ StopSentinel
    \/ StopFeederFlag
    \/ StopWriteClear

\* Modem.__init__: the control port has a read timeout (PROBER_TIMEOUT) and
\* the Prober is not started
Init ==
    /\ ProberInit
    /\ rx = <<>>
    /\ tx = <<>>
    /\ port_timeout = TRUE
    /\ patterns = ProberPatterns
    /\ calls = <<>>
    /\ message = Empty
    /\ t_pc = "none"
    /\ SendIdle
    /\ ModemInit

Next ==
    \/ \E g \in Gens : Feeder(g)
    \/ \E g \in Gens : Interpreter(g)
    \/ Caller

Spec == Init /\ [][Next]_vars

\* ------------------------------------------- interpret on any rule list
\* self.interpret(message) on an Interpreter made with the given rules
InterpretCall ==
    /\ t_pc = "ready"
    /\ calls' = Interpret(patterns, message)
    /\ t_pc' = "done"
    /\ UNCHANGED <<pvars, portvars, patterns, message, svars, mvars>>

InitInterpret ==
    /\ ProberInit
    /\ rx = <<>>
    /\ tx = <<>>
    /\ port_timeout = TRUE
    /\ patterns \in SeqsUpTo(RuleSet, MaxRules)
    /\ calls = <<>>
    /\ message \in Messages
    /\ t_pc = "ready"
    /\ SendIdle
    /\ ModemInit

NextInterpret == InterpretCall

SpecInterpret == InitInterpret /\ [][NextInterpret]_vars

\* ------------------------------------------------ one send on any answer
\* a call send(SendText, wait, at_cmd) on a port, with or without a read
\* timeout, that the modem answers with any lines; the modem sends nothing
\* else during the call
InitSend ==
    /\ ProberInit
    /\ rx \in SeqsUpTo(ReplyLines, MaxStream)
    /\ tx = <<>>
    /\ port_timeout \in BOOLEAN
    /\ patterns = ProberPatterns
    /\ calls = <<>>
    /\ message = Empty
    /\ t_pc = "none"
    /\ s_pc = "write"
    /\ s_at_cmd \in {NoCommand, CSQ}
    /\ s_wait \in BOOLEAN
    /\ s_data = <<>>
    /\ s_result = "none"
    /\ s_stream = rx
    /\ ModemInit

NextSend ==
    \/ SendWrite
    \/ SendEcho
    \/ ReturnDataRead

SpecSend == InitSend /\ [][NextSend]_vars

\* ------------------------------------------- connect() and disconnect()
\* any sequence of connect() and disconnect() calls on a Modem whose data
\* port (a ModemPort made without a read timeout) the modem answers with any
\* lines
InitModem ==
    /\ ProberInit
    /\ rx = <<>>
    /\ tx = <<>>
    /\ port_timeout = FALSE
    /\ patterns = ProberPatterns
    /\ calls = <<>>
    /\ message = Empty
    /\ t_pc = "none"
    /\ SendIdle
    /\ ModemInit

Connect ==
    \/ ConnectRaises
    \/ ConnectOpen
    \/ ConnectAtzWrite
    \/ ConnectAtzEcho
    \/ ConnectAtzData
    \/ ConnectDialWrite
    \/ ConnectDialEcho
    \/ ConnectStatus

NextModem ==
    \/ Connect
    \/ DisconnectRaises
    \/ Disconnect
    \/ DisconnectKillRaises
    \/ ModemAnswers

SpecModem == InitModem /\ [][NextModem]_vars

\* ------------------------------- a send on the control port of a Prober
\* what the modem answers to the command written by send: the echo, a
\* reply line and the terminator, or the echo and an error
ControlReplies ==
    { << AtFrame(SendText) \o CRLF, CSQ \o <<":", " ", "5">> \o CRLF, OK \o CRLF >>,
      << AtFrame(SendText) \o CRLF, <<"E", "R", "R", "O", "R">> \o CRLF >> }

\* a thread calls self.ctrl_port.send(SendText, wait, at_cmd) (as the
\* commands of at_commands.CommandSet do), whatever the Prober is doing
SendCall ==
    /\ s_pc = "none"
    /\ s_pc' = "write"
    /\ s_at_cmd' \in {NoCommand, CSQ}
    /\ s_wait' \in BOOLEAN
    /\ UNCHANGED <<pvars, portvars, patterns, calls, tvars, mvars,
                   s_data, s_result, s_stream>>

\* the modem answers the command once it is written
ModemReplies ==
    /\ s_pc = "echo"
    /\ s_stream = <<>>
    /\ \E reply \in ControlReplies :
          /\ rx' = rx \o reply
          /\ s_stream' = reply
    /\ UNCHANGED <<pvars, patterns, calls, tvars, mvars, tx, port_timeout,
                   s_pc, s_at_cmd, s_wait, s_data, s_result>>

\* Modem.__init__, then prober.start() and one send on the control port by
\* another thread, in any interleaving
InitShared ==
    /\ ProberInit
    /\ rx = <<>>
    /\ tx = <<>>
    /\ port_timeout = TRUE
    /\ patterns = ProberPatterns
    /\ calls = <<>>
    /\ message = Empty
    /\ t_pc = "none"
    /\ SendIdle
    /\ ModemInit

NextShared ==
    \/ Start
    \/ \E g \in Gens : Feeder(g)
    \/ \E g \in Gens : Interpreter(g)
    \/ SendCall
    \/ SendWrite
    \/ ModemReplies
    \/ SendEcho
    \/ ReturnDataRead

SpecShared == InitShared /\ [][NextShared]_vars

\* --------------------------------------------------- fair scheduling
\* the Prober when no read and no action raises
NextLive ==
    \/ \E g \in Gens :
          \/ FeederCheck(g)
          \/ FeederAcquire(g)
          \/ FeederReadPut(g)
          \/ FeederRelease(g)
          \/ FeederSleep(g)
    \/ \E g \in Gens :
          \/ InterpreterCheck(g)
          \/ InterpreterGet(g)
          \/ InterpreterInterpretReturns(g)
    \/ Caller

\* every thread that can take a step is scheduled in the end, a thread
\* waiting for the lock or for a message gets it if it is offered again and
\* again, a read of the control port returns within its timeout, and a
\* stop() that has begun runs to its end; no call of start() or stop() is
\* ever required
FairThreads ==
    /\ \A g \in Gens :
          /\ WF_vars(FeederCheck(g))
          /\ SF_vars(FeederAcquire(g))
          /\ WF_vars(FeederReadPut(g))
          /\ WF_vars(FeederRelease(g))
          /\ WF_vars(FeederSleep(g))
          /\ WF_vars(InterpreterCheck(g))
          /\ SF_vars(InterpreterGet(g))
          /\ WF_vars(InterpreterInterpretReturns(g))
    /\ WF_vars(StopSentinel)
    /\ WF_vars(StopFeederFlag)
    /\ WF_vars(StopWriteClear)

SpecLive == Init /\ [][NextLive]_vars /\ FairThreads

\* ================================================================= claims
\* ---------------------------------------------------------------- helpers
\* how often message id was given to interpret
TimesDispatched(id) == Cardinality({i \in DOMAIN disp : disp[i].id = id})

\* how often message id is on the queue
TimesQueued(id) == Cardinality({i \in DOMAIN queue : queue[i].id = id})

\* how often message id is held by an Interpreter that has not dispatched it
TimesHeld(id) == Cardinality({g \in Gens : i_msg[g] # NoMessage /\ i_msg[g].id = id})

LiveFeeders == {g \in Gens : Live(f_pc[g])}
LiveInterpreters == {g \in Gens : Live(i_pc[g])}

\* some rule of the dispatch table matches the message
SomeRuleMatches == \E k \in DOMAIN patterns : Search(patterns[k].pattern, message)

\* rule k is the lowest-index rule that matches the message
FirstMatch(k) ==
    /\ Search(patterns[k].pattern, message)
    /\ \A j \in 1..(k - 1) : ~Search(patterns[j].pattern, message)

\* ---------------------------------------------------------------- C1
\* C1 (as claimed): the messages the Feeder enqueued are given to interpret
\* in the order they were enqueued, whatever start()/stop() calls are made:
\* of two interpret calls on Feeder messages, the earlier call is on the
\* message that was put on the queue first.
C1_FifoDispatch ==
    \A i, j \in DOMAIN disp :
        (i < j /\ disp[i].by = "feeder" /\ disp[j].by = "feeder")
            => disp[i].id < disp[j].id

\* ---------------------------------------------------------------- C2
\* C2 (as claimed): every message the Feeder put on the queue is dispatched
\* exactly once: once every thread has ended and no call is in progress, no
\* Feeder message is left on the queue or undispatched, and none was
\* dispatched twice.
C2_ExactlyOnce ==
    (c_pc = "idle" /\ LiveFeeders = {} /\ LiveInterpreters = {})
        => /\ \A i \in DOMAIN queue : queue[i].by # "feeder"
           /\ \A id \in 1..enq : TimesDispatched(id) <= 1

\* C2 (amended): no message is dispatched twice: every message ever put on
\* the queue is in exactly one place, on the queue, held by one Interpreter
\* that took it, or dispatched once; it may stay undispatched.
C2_AtMostOnce ==
    \A id \in 1..enq :
        TimesQueued(id) + TimesHeld(id) + TimesDispatched(id) = 1

\* two Feeder messages were dispatched across a restart, and a Feeder
\* message is left on the queue after the last stop()
C2_Witness ==
    /\ nthreads = 2
    /\ c_pc = "idle"
    /\ p_feeder = 0
    /\ \E i \in DOMAIN disp : disp[i].by = "feeder"
    /\ \E i \in DOMAIN queue : queue[i].by = "feeder"
    /\ LiveFeeders = {}
    /\ LiveInterpreters = {}

\* ---------------------------------------------------------------- C3
\* C3: interpret is first-match-wins: when rule k is the lowest-index rule
\* whose pattern matches the message, the call made is the action of rule k
\* and no other action (of a later matching rule, or the default) is called.
C3_FirstMatchWins ==
    t_pc = "done" =>
        \A k \in DOMAIN patterns :
            FirstMatch(k) => calls = <<RuleCall(patterns, k)>>

\* both rules match the message and only the first one's action was called
C3_Witness ==
    /\ t_pc = "done"
    /\ Len(patterns) = 2
    /\ Search(patterns[1].pattern, message)
    /\ Search(patterns[2].pattern, message)
    /\ patterns[1].action # patterns[2].action
    /\ calls = <<RuleCall(patterns, 1)>>

\* ---------------------------------------------------------------- C4
\* C4: for every message given to interpret exactly one action is called,
\* once: the action of a rule that matches if some rule matches, and the
\* default action (actions.no_match) if and only if no rule matches.
C4_ExactlyOneAction ==
    t_pc = "done" =>
        /\ Len(calls) = 1
        /\ (calls[1].via = "default") <=> ~SomeRuleMatches
        /\ calls[1].via = "default" => calls[1] = DefaultCall
        /\ calls[1].via = "rule" =>
              /\ calls[1].rule \in DOMAIN patterns
              /\ Search(patterns[calls[1].rule].pattern, message)
              /\ calls[1].action = patterns[calls[1].rule].action

\* a table with rules none of which matches: the default action was called
C4_Witness ==
    /\ t_pc = "done"
    /\ Len(patterns) = 2
    /\ ~SomeRuleMatches
    /\ calls = <<DefaultCall>>

\* ---------------------------------------------------------------- C5
\* what a call of start() or stop() that fails must leave alone: the threads,
\* the queue, the control port and the started marker
GuardedState ==
    <<p_feeder, p_interpreter, queue, f_pc, f_active, i_pc, i_active, i_msg,
      ctrl_lock, nthreads, enq, disp, rx, tx, c_pc>>

\* C5: start() fails with a usage error exactly when the Prober is started
\* and stop() exactly when it is not, and a failing call changes nothing: a
\* step that ends in a usage error of start() is taken with the marker set, a
\* step that ends in one of stop() with the marker clear, both leave the
\* threads, queue, port and marker as they were; a step that creates threads
\* (a start() that goes ahead) is taken with the marker clear, and a step
\* that begins stopping with the marker set.
C5_UsageGuards ==
    [][ /\ (c_outcome' = "start_usage_error" /\ c_outcome # "start_usage_error")
            => (p_feeder # 0 /\ c_pc = "idle" /\ UNCHANGED GuardedState)
        /\ (c_outcome' = "stop_usage_error" /\ c_outcome # "stop_usage_error")
            => (p_feeder = 0 /\ c_pc = "idle" /\ UNCHANGED GuardedState)
        /\ nthreads' # nthreads
            => (p_feeder = 0 /\ c_pc = "idle" /\ c_outcome' = "ok")
        /\ (c_pc = "idle" /\ c_pc' = "stop_sentinel")
            => (p_feeder # 0 /\ c_outcome' = "ok")
      ]_vars

\* a start() failed on a Prober that was started, stopped and started again
C5_Witness ==
    /\ c_outcome = "start_usage_error"
    /\ nthreads = 2
    /\ p_feeder = 2
    /\ tx = <<CRLF>>

\* ---------------------------------------------------------------- C6
\* C6 (as claimed): a Prober never has more than one live QueueFeeder thread
\* nor more than one live Interpreter thread.
C6_AtMostOneLive ==
    /\ Cardinality(LiveFeeders) <= 1
    /\ Cardinality(LiveInterpreters) <= 1

\* ---------------------------------------------------------------- C7
\* no thread has been ended by an exception
NoThreadCrashed == \A g \in Gens : f_pc[g] # "crashed" /\ i_pc[g] # "crashed"

\* C7 (as claimed): once a start() or stop() call has returned the Prober is
\* fully stopped or fully running: with the marker _feeder clear no thread of
\* it is live, with the marker set its QueueFeeder and its Interpreter are
\* both live and active. Stated here for the runs in which no read and no
\* action raises, where it fails all the same.
C7_StoppedOrRunning ==
    (c_pc = "idle" /\ NoThreadCrashed) =>
        IF p_feeder = 0
        THEN LiveFeeders = {} /\ LiveInterpreters = {}
        ELSE /\ Live(f_pc[p_feeder]) /\ f_active[p_feeder]
             /\ Live(i_pc[p_interpreter]) /\ i_active[p_interpreter]

\* ---------------------------------------------------------------- C8
\* the lines one send has read so far, and those return_data read before
\* the line that ended it
LinesRead == SubSeq(s_stream, 1, Len(s_stream) - Len(rx))
ReadBeforeLast == SubSeq(LinesRead, 2, Len(LinesRead) - 1)

\* f applied to every element of a sequence
MapSeq(seq, f(_)) == [i \in 1..Len(seq) |-> f(seq[i])]

\* the call returned the list data
ReturnedData == s_pc = "returned" /\ s_result = "data"

\* C8 (as claimed): with a command prefix, the result is exactly the lines
\* read before the terminator that begin with "<prefix>: ", each with the
\* prefix and the separator stripped, in arrival order; any other line, also
\* one that begins with the prefix but not with "<prefix>: ", is discarded.
C8_PrefixFilter ==
    (ReturnedData /\ s_at_cmd # NoCommand) =>
        LET HasPrefix(line) == StartsWith(line, s_at_cmd \o <<":", " ">>)
            Stripped(line) == RStrip(SliceFrom(line, Len(s_at_cmd) + 2))
        IN  s_data = MapSeq(SelectSeq(ReadBeforeLast, HasPrefix), Stripped)

\* ---------------------------------------------------------------- C9
\* a line without its line terminator
Chomp(line) ==
    IF Len(line) >= 2 /\ SubSeq(line, Len(line) - 1, Len(line)) = CRLF
    THEN SubSeq(line, 1, Len(line) - 2)
    ELSE line

NonEmpty(text) == text # Empty

\* C9 (as claimed): without a command prefix the result is exactly the
\* non-empty lines read before the first "OK" line, verbatim and in arrival
\* order; the terminator is not in the result and nothing after it is read.
C9_VerbatimNonEmpty ==
    (ReturnedData /\ s_at_cmd = NoCommand) =>
        /\ s_data = SelectSeq(MapSeq(ReadBeforeLast, Chomp), NonEmpty)
        /\ Chomp(LinesRead[Len(LinesRead)]) = OK
        /\ \A i \in DOMAIN ReadBeforeLast : Chomp(ReadBeforeLast[i]) # OK

\* C9 (amended): without a command prefix the result is exactly the lines
\* read before the first line that is "OK" once right-stripped, each
\* right-stripped, in arrival order, without those that are empty once
\* right-stripped; the terminator is not in the result and nothing after it
\* is read.
C9_RStrippedNonEmpty ==
    (ReturnedData /\ s_at_cmd = NoCommand) =>
        /\ Len(LinesRead) >= 2
        /\ s_data = SelectSeq(MapSeq(ReadBeforeLast, RStrip), NonEmpty)
        /\ RStrip(LinesRead[Len(LinesRead)]) = OK
        /\ \A i \in DOMAIN ReadBeforeLast : RStrip(ReadBeforeLast[i]) # OK

\* of the two lines read before the terminator the empty one was dropped
\* and the other kept, right-stripped
C9_Witness ==
    /\ ReturnedData
    /\ s_at_cmd = NoCommand
    /\ Len(ReadBeforeLast) = 2
    /\ s_data = << <<"h", "i">> >>
    /\ Len(rx) = 0
    /\ \E i \in DOMAIN ReadBeforeLast : RStrip(ReadBeforeLast[i]) = Empty

\* --------------------------------------------------------------- C10
\* line i of the answer is the first that is a classified error token
FirstError(i) ==
    /\ i \in DOMAIN s_stream
    /\ IsError(s_stream[i])
    /\ \A j \in 1..(i - 1) : ~IsError(s_stream[j])

\* line i is the echoed line, or a reply line that return_data reads before
\* any terminator
BeforeTerminator(i) ==
    \/ i = 1
    \/ s_wait /\ \A j \in 2..(i - 1) : RStrip(s_stream[j]) # OK

\* C10: when the echoed line or a reply line read before the terminator is
\* a classified error token, send fails with the error at that line: the
\* call reads no line after it, has failed once it has read it, and never
\* returns a result.
C10_ErrorAborts ==
    \A i \in DOMAIN s_stream :
        (s_pc # "none" /\ FirstError(i) /\ BeforeTerminator(i)) =>
            /\ Len(LinesRead) <= i
            /\ Len(LinesRead) = i => (s_pc = "raised" /\ s_result = "error")
            /\ s_pc # "returned"
            /\ s_result \notin {"data", "None"}

\* the call failed at a reply line after it had collected data, with a
\* terminator left unread behind the error line
C10_Witness ==
    /\ s_pc = "raised"
    /\ s_result = "error"
    /\ s_data # <<>>
    /\ Len(LinesRead) = 3
    /\ rx # <<>>
    /\ RStrip(rx[1]) = OK

\* --------------------------------------------------------------- C11
\* what connect() and disconnect() work on besides _pppd_pid: the data port,
\* the processes forked and the signals sent
ModemWorld == <<rx, tx, d_open, procs, kills>>

\* C11: over any sequence of connect() and disconnect() calls: a connect()
\* made while a process id is tracked ends in a usage error and leaves the
\* data port, the processes and the tracked id as they were; a disconnect()
\* made while none is tracked ends in a usage error and signals nothing; a
\* disconnect() that succeeds sends one signal, to the tracked id, and
\* clears it; nothing else ever sends a signal.
C11_ConnectionGuards ==
    [][ /\ (m_pc = "idle" /\ m_call' = "connect" /\ m_pppd_pid # 0)
            => /\ m_outcome' = "usage_error"
               /\ m_pc' = "idle"
               /\ UNCHANGED <<ModemWorld, m_pppd_pid>>
        /\ (m_pc = "idle" /\ m_call' = "disconnect" /\ m_pppd_pid = 0)
            => /\ m_outcome' = "usage_error"
               /\ UNCHANGED <<ModemWorld, m_pppd_pid>>
        /\ (m_pc = "idle" /\ m_call' = "disconnect" /\ m_outcome' = "ok")
            => /\ m_pppd_pid # 0
               /\ kills' = Append(kills, m_pppd_pid)
               /\ m_pppd_pid' = 0
               /\ UNCHANGED <<rx, tx, d_open, procs>>
        /\ kills' # kills
            => (m_pc = "idle" /\ m_call' = "disconnect" /\ m_outcome' = "ok")
      ]_vars

\* a connect() failed on a modem that was connected, disconnected and
\* connected again: two processes forked, the first one signalled once
C11_Witness ==
    /\ m_call = "connect"
    /\ m_outcome = "usage_error"
    /\ m_pppd_pid = 2
    /\ procs = 2
    /\ kills = <<1>>
    /\ Len(tx) = 4

\* --------------------------------------------------------------- C20
\* the first seven characters of a line are CONNECT
BeginsWithConnect(line) ==
    /\ Len(line) >= Len(CONNECT)
    /\ \A i \in 1..Len(CONNECT) : line[i] = CONNECT[i]

\* C20: connect() records a process id only if the status line it read
\* after the dial command begins with "CONNECT"; on any other status line,
\* an empty one too, it returns without error, forks nothing and leaves
\* _pppd_pid None; and on a modem that is not connected a disconnect() ends
\* in a usage error while a connect() is not refused by the usage guard.
C20_ConnectedOnlyOnConnect ==
    [][ /\ (m_pc = "status" /\ m_pc' # "status")
            => /\ m_pc' = "idle"
               /\ m_outcome' = "ok"
               /\ IF BeginsWithConnect(m_status')
                  THEN m_pppd_pid' # 0 /\ procs' = procs + 1
                  ELSE m_pppd_pid' = 0 /\ procs' = procs
        /\ (m_pppd_pid' # m_pppd_pid /\ m_pppd_pid' # 0)
            => (m_pc = "status" /\ BeginsWithConnect(m_status'))
        /\ procs' # procs
            => (m_pc = "status" /\ BeginsWithConnect(m_status'))
        /\ (m_pc = "idle" /\ m_pppd_pid = 0 /\ m_call' = "disconnect")
            => m_outcome' = "usage_error"
        /\ (m_pc = "idle" /\ m_pppd_pid = 0 /\ m_call' = "connect")
            => m_outcome' # "usage_error"
      ]_vars

\* connect() returned on a status line that holds CONNECT but does not begin
\* with it, nothing was forked, and the disconnect() after it failed
C20_Witness ==
    /\ m_call = "disconnect"
    /\ m_outcome = "usage_error"
    /\ Search(CONNECT, m_status)
    /\ ~StartsWith(m_status, CONNECT)
    /\ procs = 0
    /\ m_pppd_pid = 0
    /\ Len(tx) = 2

\* --------------------------------------------------------------- C17
\* a line is a terminator of return_data: "OK" or a classified error once
\* right-stripped
Terminates(line) == RStrip(line) = OK \/ IsError(RStrip(line))

\* C17: return_data ends only on a terminator: a send that waits has
\* returned only if the last line it read is "OK", has failed only if the
\* last line it read is a classified error, and as long as it has read no
\* terminator it is still in its loop, also after empty lines and on a port
\* whose reads time out with nothing to read.
C17_EndsOnlyOnTerminator ==
    s_wait =>
        /\ s_pc = "returned"
              => (Len(LinesRead) >= 2 /\ RStrip(LinesRead[Len(LinesRead)]) = OK)
        /\ s_pc = "raised"
              => (Len(LinesRead) >= 1 /\ IsError(LinesRead[Len(LinesRead)]))
        /\ ( /\ s_pc \notin {"none", "write", "echo"}
             /\ (LinesRead # <<>> => ~IsError(LinesRead[1]))
             /\ \A i \in 2..Len(LinesRead) : ~Terminates(LinesRead[i]) )
              => s_pc = "return_data"

\* the loop is still running after it read an empty line and all there was
\* to read, on a port whose reads now time out
C17_Witness ==
    /\ s_wait
    /\ s_pc = "return_data"
    /\ port_timeout
    /\ rx = <<>>
    /\ Len(LinesRead) = MaxStream
    /\ \E i \in 2..Len(LinesRead) : RStrip(LinesRead[i]) = Empty
    /\ s_data # <<>>

\* --------------------------------------------------------------- C14
\* where a QueueFeeder is inside the locked part of an iteration: at the
\* read, or in the finally clause before the release
InLockedPart(pc) == pc \in {"read", "release", "release_raised"}

\* QueueFeeder g holds the lock exactly in the locked part of an iteration
HoldsLockExactlyThere(g) == (ctrl_lock = g) <=> InLockedPart(f_pc[g])

\* C14: a QueueFeeder reads the control port only while it holds the lock;
\* it holds the lock nowhere else, so not while idling, and not after run()
\* ended on an exception; every iteration ends by releasing the lock, also
\* when the read raised, and then idles; and a new iteration is entered only
\* from the idle, so the lock is free for a waiting task in between.
C14_LockAroundRead ==
    [][ \A g \in Gens :
          /\ HoldsLockExactlyThere(g)
          /\ HoldsLockExactlyThere(g)'
          /\ (f_pc[g] \in {"release", "release_raised"} /\ f_pc'[g] # f_pc[g])
                => /\ ctrl_lock' = 0
                   /\ f_pc'[g] = (IF f_pc[g] = "release" THEN "sleep" ELSE "sleep_raised")
          /\ (f_pc[g] = "read" /\ f_pc'[g] # "read")
                => (f_pc'[g] \in {"release", "release_raised"} /\ nreads' = nreads + 1)
          /\ (f_pc'[g] = "check" /\ f_pc[g] \notin {"check", "none"})
                => (f_pc[g] = "sleep" /\ ctrl_lock # g)
          /\ (f_pc'[g] = "crashed" /\ f_pc[g] # "crashed")
                => (f_pc[g] = "sleep_raised" /\ ctrl_lock # g)
      ]_vars

\* the second QueueFeeder holds the lock, at its read, while the first one,
\* which has read, idles between two iterations
C14_Witness ==
    /\ f_pc[1] = "sleep"
    /\ f_pc[2] = "read"
    /\ ctrl_lock = 2
    /\ nreads = 1

\* --------------------------------------------------------------- C12
\* C12 (as claimed): once stop() has set an Interpreter's active flag to
\* False, that Interpreter makes at most one more interpret call and the
\* message of that call is the sentinel put by stop(), not a line the
\* QueueFeeder read: a message the Interpreter takes from the queue with its
\* flag down is one put by stop() (a call on a message taken earlier counts
\* as in flight), and the loop test that follows ends run().
C12_OnlySentinelAfterStop ==
    [][ \A g \in Gens :
          /\ (i_pc[g] = "get" /\ i_pc'[g] = "interpret" /\ ~i_active[g])
                => i_msg'[g].by = "stop"
          /\ (i_pc[g] = "check" /\ i_pc'[g] # "check" /\ ~i_active[g])
                => i_pc'[g] = "done"
      ]_vars

\* --------------------------------------------------------------- C18
\* C18 (as claimed): an action that raises does not end the Interpreter: no
\* Interpreter thread is ever ended by an exception, and after an interpret
\* call it is back at its loop test.
C18_ActionFailureIsolated ==
    [][ \A g \in Gens :
          (i_pc[g] = "interpret" /\ i_pc'[g] # "interpret")
              => i_pc'[g] = "check"
      ]_vars

\* --------------------------------------------------------------- C15
\* the interpret calls made by Interpreter g, in order
DispatchesBy(g) == SelectSeq(disp, LAMBDA d : d.gen = g)

\* C15 (as claimed): on every stop() the sentinel is run through dispatch
\* once by the Interpreter being stopped before its loop sees the flag: an
\* Interpreter whose run() has returned made a last interpret call, and that
\* call was on a sentinel put by stop().
C15_SentinelOnEveryStop ==
    \A g \in Gens :
        i_pc[g] = "done" =>
            /\ DispatchesBy(g) # <<>>
            /\ DispatchesBy(g)[Len(DispatchesBy(g))].by = "stop"

\* the sentinels put so far: one by every stop() that got past its put
SentinelsPut == Len(tx) + (IF c_pc \in {"stop_feeder", "stop_write"} THEN 1 ELSE 0)

\* the sentinels on the queue, taken and not yet dispatched, and dispatched
SentinelsQueued == Cardinality({i \in DOMAIN queue : queue[i].by = "stop"})
SentinelsHeld == Cardinality({g \in Gens : i_msg[g] # NoMessage /\ i_msg[g].by = "stop"})
SentinelsDispatched == Cardinality({i \in DOMAIN disp : disp[i].by = "stop"})

\* C15 (amended): every stop() puts one sentinel, which is dispatched at
\* most once, by whichever Interpreter takes it, and may stay on the queue;
\* an Interpreter whose flag is down leaves its loop at its next loop test,
\* so it makes at most one more interpret call, on the message at the front
\* of the queue, sentinel or not.
C15_AtMostOneMoreDispatch ==
    [][ /\ SentinelsQueued + SentinelsHeld + SentinelsDispatched = SentinelsPut
        /\ (SentinelsQueued + SentinelsHeld + SentinelsDispatched = SentinelsPut)'
        /\ \A g \in Gens :
              /\ (i_pc[g] = "check" /\ i_pc'[g] # "check" /\ ~i_active[g])
                    => i_pc'[g] = "done"
              /\ (i_pc'[g] = "done" /\ i_pc[g] # "done")
                    => (i_pc[g] = "check" /\ ~i_active[g])
              /\ (i_pc[g] = "get" /\ i_pc'[g] # "get")
                    => (i_pc'[g] = "interpret" /\ i_msg'[g] = Head(queue))
      ]_vars

\* stop() has returned and the Interpreter it stopped has left its loop
\* after dispatching a line of the QueueFeeder and no sentinel: the sentinel
\* is still on the queue
C15_Witness ==
    /\ c_pc = "idle"
    /\ p_feeder = 0
    /\ nthreads = 1
    /\ i_pc[1] = "done"
    /\ Len(disp) = 1
    /\ disp[1].by = "feeder"
    /\ SentinelsQueued = 1

\* --------------------------------------------------------------- C16
\* what one read of the control port can return in this state: the oldest
\* unread line, or with none unread a line arriving within the timeout or
\* the empty result of the timeout
ReadResults == IF rx # <<>> THEN {rx[1]} ELSE Unsolicited \cup {Empty}

\* C16: an iteration of a QueueFeeder makes one read and one put: the read
\* is entered from the acquire only, the step that completes it counts one
\* read, consumes the line read and appends to the queue exactly one new
\* message holding what the read returned, the empty result of a timeout
\* too; nothing else puts a QueueFeeder message; and interpret is called on
\* a QueueFeeder message as on any other, whatever its line.
C16_OneReadOnePutUnfiltered ==
    [][ /\ \A g \in Gens :
              /\ (f_pc'[g] = "read" /\ f_pc[g] # "read") => f_pc[g] = "acquire"
              /\ (f_pc[g] = "read" /\ f_pc'[g] = "release")
                    => /\ nreads' = nreads + 1
                       /\ enq' = enq + 1
                       /\ \E line \in ReadResults :
                             queue' = Append(queue, [id |-> enq + 1, line |-> line,
                                                     by |-> "feeder"])
                       /\ rx' = (IF rx # <<>> THEN Tail(rx) ELSE rx)
              /\ (i_pc[g] = "interpret" /\ i_pc'[g] # "interpret")
                    => /\ calls' = Interpret(patterns, i_msg[g].line)
                       /\ disp' = Append(disp, [id |-> i_msg[g].id, by |-> i_msg[g].by,
                                                gen |-> g])
        /\ nreads' # nreads
              => \E g \in Gens : f_pc[g] = "read" /\ f_pc'[g] \in {"release", "release_raised"}
        /\ (enq' # enq /\ queue'[Len(queue')].by = "feeder")
              => (nreads' = nreads + 1 /\ Len(queue') = Len(queue) + 1)
      ]_vars

\* two QueueFeeder messages were dispatched and the second, which matched
\* no rule (the empty result of a read timeout), went to the default action
C16_Witness ==
    /\ Len(disp) = 2
    /\ disp[1].by = "feeder"
    /\ disp[2].by = "feeder"
    /\ calls = <<DefaultCall>>
    /\ nreads = 2

\* --------------------------------------------------------------- C13
\* a send is between its write and the read that ends it
MidTransaction == s_pc \in {"echo", "return_data"}

\* a line of the modem's answer to the send was read by a QueueFeeder and
\* is on the queue
AnswerLineQueued(line) ==
    /\ \E k \in DOMAIN s_stream : s_stream[k] = line
    /\ \E i \in DOMAIN queue : queue[i].by = "feeder" /\ queue[i].line = line

\* C13: send on the control port takes no part in the locking: no step of
\* a send changes ctrl_lock, and while a send is between its write and the
\* read that ends it a QueueFeeder that holds the lock reads the port all
\* the same: the line it puts on the queue is the oldest unread line, the
\* one the send would have read next, and the send does not get it.
C13_SendIgnoresLock ==
    [][ /\ s_pc' # s_pc => ctrl_lock' = ctrl_lock
        /\ \A g \in Gens :
              (MidTransaction /\ f_pc[g] = "read" /\ f_pc'[g] = "release" /\ rx # <<>>)
                  => /\ ctrl_lock = g
                     /\ queue'[Len(queue')].line = rx[1]
                     /\ rx' = Tail(rx)
                     /\ UNCHANGED <<s_pc, s_data>>
      ]_vars

\* the send has written its command and read the echo and the reply line,
\* and waits for the terminator; a QueueFeeder, holding the lock, has read
\* the "OK" line and put it on the queue; nothing is left to read
C13_Witness ==
    /\ s_pc = "return_data"
    /\ s_wait
    /\ s_data # <<>>
    /\ rx = <<>>
    /\ AnswerLineQueued(OK \o CRLF)
    /\ \E g \in Gens : ctrl_lock = g /\ f_pc[g] = "release"

\* --------------------------------------------------------------- C19
\* stop() has set both active flags of generation g
Stopped(g) == f_pc[g] # "none" /\ ~f_active[g] /\ ~i_active[g]

\* the QueueFeeder and the Interpreter of generation g have both ended
Terminated(g) == ~Live(f_pc[g]) /\ ~Live(i_pc[g])

\* C19 (as claimed): under fair scheduling, with reads that return within
\* their timeout and actions that return, the QueueFeeder and the
\* Interpreter that a stop() stopped both end, whatever they were doing and
\* whether or not start() follows. Runs in which the model's read budget is
\* used up are left out.
C19_StoppedThreadsEnd ==
    \A g \in Gens : Stopped(g) ~> (Terminated(g) \/ nreads = MaxReads)

====
